---- MODULE Spec2Model ----
(***************************************************************************)
(* The number guessing game of src/web/server_postgresql.py: the three     *)
(* tables (users, player_profiles, games), the browser session, and the    *)
(* request handlers that read and write them.  The session is Flask's      *)
(* default signed cookie: it lives in the browser, every request carries   *)
(* the copy the browser held when it was sent, and a handler that changes  *)
(* it answers with the changed copy.                                       *)
(*                                                                         *)
(* The JSON columns (games.guesses, player_profiles.achievements) are      *)
(* modelled as the Python lists the handlers mutate.  Integer form input   *)
(* only: a guess that int() rejects changes nothing and is left out.       *)
(***************************************************************************)
EXTENDS Integers, Sequences, FiniteSets, TLC

VARIABLES users, player_profiles, games, session, last, requests

vars == <<users, player_profiles, games, session, last, requests>>

----------------------------------------------------------------------------
(* Bounds of the model.                                                    *)

\* rows the games table may hold in Spec
MaxGames == 2
\* recorded guesses per game in Spec, and attempts per win in SpecProfile
MaxAttempts == 3
\* wins recorded over all profiles in SpecProfile
MaxWins == 11
\* requests the browser sends in SpecRace
MaxRequests == 2

----------------------------------------------------------------------------
(* Values.                                                                 *)

\* Python None in a string-valued place
None == "None"
\* a nullable integer (best_score, worst_score, a limit): Null, or Some(n)
Null == <<>>
Some(n) == <<n>>

Nicknames == {"ann"}
GoogleIds == {"g1"}
GoogleNames == {"ann"}
\* the limits get_leaderboard is called with (5, None) and smaller ones
Limits == {Null, Some(0), Some(1), Some(5)}

\* the three recognized difficulties, one unrecognized, and the empty string
Difficulties == {"easy", "medium", "hard", "insane", ""}

OneShotWonder == "One-Shot Wonder"
HotStreak == "Hot Streak"
Veteran == "Veteran"

\* distance thresholds of the feedback bands
VeryCloseMax == 5
WarmMax == 15
ColdMax == 30
\* achievement thresholds
HotStreakAt == 3
VeteranAt == 10

Abs(x) == IF x < 0 THEN -x ELSE x

Min(a, b) == IF a < b THEN a ELSE b

----------------------------------------------------------------------------
(* Difficulty table.                                                       *)

\* get_range: ranges.get(difficulty, (1, 100))
GetRange(difficulty) ==
    CASE difficulty = "easy" -> <<1, 50>>
      [] difficulty = "medium" -> <<1, 100>>
      [] difficulty = "hard" -> <<1, 500>>
      [] OTHER -> <<1, 100>>

\* mutant: init_game falls back to the widest range
InitGameRangeWideFallback(difficulty) ==
    CASE difficulty = "easy" -> <<1, 50>>
      [] difficulty = "medium" -> <<1, 100>>
      [] difficulty = "hard" -> <<1, 500>>
      [] OTHER -> <<1, 500>>

\* the table init_game keeps for itself
InitGameRange(difficulty) ==
    CASE difficulty = "easy" -> <<1, 50>>
      [] difficulty = "medium" -> <<1, 100>>
      [] difficulty = "hard" -> <<1, 500>>
      [] OTHER -> <<1, 100>>

----------------------------------------------------------------------------
(* Guess evaluation: the branches of process_guess.                        *)

Outcome(kind, band, direction) ==
    [kind |-> kind, band |-> band, direction |-> direction]

NotFound == Outcome("NotFound", None, None)

\* 'Too low' if guess < game.secret_number else 'Too high'
Direction(guess, secret) == IF guess < secret THEN "TooLow" ELSE "TooHigh"

\* mutant: the thresholds taken as exclusive
BandExclusive(diff) ==
    IF diff < VeryCloseMax THEN "VeryClose"
    ELSE IF diff < WarmMax THEN "Warm"
    ELSE IF diff < ColdMax THEN "Cold"
    ELSE "WayOff"

\* the if / elif chain on diff
Band(diff) ==
    IF diff <= VeryCloseMax THEN "VeryClose"
    ELSE IF diff <= WarmMax THEN "Warm"
    ELSE IF diff <= ColdMax THEN "Cold"
    ELSE "WayOff"

\* mutant: the lower end of the range rejected
EvaluateExclusiveLow(guess, secret, low, high) ==
    IF guess <= low \/ guess > high
    THEN Outcome("OutOfRange", None, None)
    ELSE IF guess = secret
         THEN Outcome("Win", None, None)
         ELSE Outcome("Miss", Band(Abs(guess - secret)), Direction(guess, secret))

\* the range check, then the win test, then the band
Evaluate(guess, secret, low, high) ==
    IF guess < low \/ guess > high
    THEN Outcome("OutOfRange", None, None)
    ELSE IF guess = secret
         THEN Outcome("Win", None, None)
         ELSE Outcome("Miss", Band(Abs(guess - secret)), Direction(guess, secret))

----------------------------------------------------------------------------
(* Rows.                                                                   *)

\* User(name=..., email=..., google_id=...)
User(name, email, google_id) ==
    [name |-> name, email |-> email, google_id |-> google_id]

\* PlayerProfile(user_id=...) with the column defaults
PlayerProfile(user_id) ==
    [user_id |-> user_id, games_won |-> 0, games_lost |-> 0,
     best_score |-> Null, worst_score |-> Null, total_attempts |-> 0,
     current_streak |-> 0, best_streak |-> 0, achievements |-> <<>>]

\* Game(user_id, difficulty, secret_number, attempts=0, won=False)
Game(user_id, difficulty, secret_number) ==
    [user_id |-> user_id, difficulty |-> difficulty, attempts |-> 0,
     won |-> FALSE, secret_number |-> secret_number, guesses |-> <<>>,
     completed_at |-> None]

Contains(seq, x) == \E k \in DOMAIN seq : seq[k] = x

\* PlayerProfile.query.filter_by(user_id=user_id).first(): the row's id, 0 for None
FirstProfile(profiles, user_id) ==
    IF \E i \in DOMAIN profiles : profiles[i].user_id = user_id
    THEN CHOOSE i \in DOMAIN profiles :
            /\ profiles[i].user_id = user_id
            /\ \A j \in DOMAIN profiles : profiles[j].user_id = user_id => i <= j
    ELSE 0

----------------------------------------------------------------------------
(* Profile aggregator: update_player_profile.                              *)

\* mutant: the latest win taken as the best
BestScoreLatest(best_score, attempts) == Some(attempts)

BestScore(best_score, attempts) ==
    IF best_score = Null \/ attempts < best_score[1] THEN Some(attempts) ELSE best_score

WorstScore(worst_score, attempts) ==
    IF worst_score = Null \/ attempts > worst_score[1] THEN Some(attempts) ELSE worst_score

\* mutant: the best streak never raised
BestStreakStale(best_streak, current_streak) == best_streak

BestStreak(best_streak, current_streak) ==
    IF current_streak > best_streak THEN current_streak ELSE best_streak

\* mutant: the badge appended whenever its condition holds
AwardUnchecked(achievements, condition, badge) ==
    IF condition THEN Append(achievements, badge) ELSE achievements

\* if <condition> and <badge> not in profile.achievements: append
Award(achievements, condition, badge) ==
    IF condition /\ ~Contains(achievements, badge)
    THEN Append(achievements, badge)
    ELSE achievements

\* the three achievement checks, on the already updated counters
CheckAchievements(p, attempts) ==
    LET a1 == Award(p.achievements, attempts = 1, OneShotWonder)
        a2 == Award(a1, p.current_streak = HotStreakAt, HotStreak)
        a3 == Award(a2, p.games_won = VeteranAt, Veteran)
    IN  [p EXCEPT !.achievements = a3]

\* the body of "if profile:"
RecordWin(p, attempts) ==
    LET q == [p EXCEPT !.games_won = @ + 1,
                       !.current_streak = @ + 1,
                       !.total_attempts = @ + attempts,
                       !.best_score = BestScore(@, attempts),
                       !.worst_score = WorstScore(@, attempts)]
        r == [q EXCEPT !.best_streak = BestStreak(@, q.current_streak)]
    IN  CheckAchievements(r, attempts)

UpdatePlayerProfile(profiles, user_id, attempts) ==
    LET i == FirstProfile(profiles, user_id)
    IN  IF i # 0 THEN [profiles EXCEPT ![i] = RecordWin(@, attempts)] ELSE profiles

----------------------------------------------------------------------------
(* Leaderboard query: get_leaderboard.                                     *)

\* join(PlayerProfile).filter(best_score.isnot(None)): <<user id, profile id>>
LeaderboardRows(us, profiles) ==
    {row \in (DOMAIN us) \X (DOMAIN profiles) :
        /\ profiles[row[2]].user_id = row[1]
        /\ profiles[row[2]].best_score # Null}

\* mutant: the rows ordered by descending best_score
OrderByDesc(profiles, order) ==
    \A j, k \in DOMAIN order :
        j < k => profiles[order[j][2]].best_score[1] >= profiles[order[k][2]].best_score[1]

\* order_by(PlayerProfile.best_score.asc())
OrderBy(profiles, order) ==
    \A j, k \in DOMAIN order :
        j < k => profiles[order[j][2]].best_score[1] <= profiles[order[k][2]].best_score[1]

\* the orders the store may return the joined rows in: ties are the store's choice
StoreOrders(us, profiles) ==
    LET rows == LeaderboardRows(us, profiles)
        n == Cardinality(rows)
    IN  {order \in [1..n -> rows] :
            /\ \A j, k \in 1..n : j # k => order[j] # order[k]
            /\ OrderBy(profiles, order)}

\* if limit: query = query.limit(limit)
ApplyLimit(order, limit) ==
    IF limit # Null /\ limit[1] # 0
    THEN SubSeq(order, 1, Min(limit[1], Len(order)))
    ELSE order

\* {'name': row[0], 'best_score': row[1], 'wins': row[2]}
Entry(us, profiles, row) ==
    [name |-> us[row[1]].name,
     best_score |-> profiles[row[2]].best_score[1],
     wins |-> profiles[row[2]].games_won]

GetLeaderboard(us, profiles, limit, order) ==
    LET q == ApplyLimit(order, limit)
    IN  [k \in 1..Len(q) |-> Entry(us, profiles, q[k])]

----------------------------------------------------------------------------
(* Game session store.                                                     *)

\* init_game: the row added and made the session's current game;
\* secret_number is what random.randint(low, high) returned
InitGame(gs, user_id, difficulty, secret_number) ==
    Append(gs, Game(user_id, difficulty, secret_number))

\* what random.randint(low, high) may return
RandInt(difficulty) ==
    InitGameRange(difficulty)[1] .. InitGameRange(difficulty)[2]

\* mutant: the ownership test left out
OwnedGameAnyUser(gs, game_id, user_id) ==
    IF game_id \in DOMAIN gs THEN game_id ELSE 0

\* Game.query.get(game_id) with the ownership test: the game's id, 0 when
\* the handler finds no game of this user
OwnedGame(gs, game_id, user_id) ==
    IF game_id \in DOMAIN gs /\ gs[game_id].user_id = user_id THEN game_id ELSE 0

\* get_current_game: None, or the read projection
GetCurrentGame(gs, game_id, user_id) ==
    IF game_id = 0
    THEN Null
    ELSE IF OwnedGame(gs, game_id, user_id) = 0
         THEN Null
         ELSE Some([id |-> game_id,
                    difficulty |-> gs[game_id].difficulty,
                    attempts |-> gs[game_id].attempts,
                    low |-> GetRange(gs[game_id].difficulty)[1],
                    high |-> GetRange(gs[game_id].difficulty)[2]])

\* mutant: the guess counted but not appended
RecordGuessNoAppend(game, guess) ==
    [game EXCEPT !.attempts = @ + 1]

\* game.attempts += 1; game.guesses.append(guess)
RecordGuess(game, guess) ==
    [game EXCEPT !.attempts = @ + 1, !.guesses = Append(@, guess)]

\* game.won = True; game.completed_at = datetime.utcnow()
MarkWon(game) ==
    [game EXCEPT !.won = TRUE, !.completed_at = "utcnow"]

----------------------------------------------------------------------------
(* The last request served: which handler, for whom, with what input and   *)
(* what it answered.                                                       *)

NoOutcome == Outcome(None, None, None)

Last(op, user_id, game_id, guess, outcome, limit, result) ==
    [op |-> op, user_id |-> user_id, game_id |-> game_id, guess |-> guess,
     outcome |-> outcome, limit |-> limit, result |-> result]

Init ==
    /\ users = <<>>
    /\ player_profiles = <<>>
    /\ games = <<>>
    /\ session = [user_id |-> 0, current_game_id |-> 0]
    /\ last = Last("start", 0, 0, 0, NoOutcome, Null, <<>>)
    /\ requests = <<>>

----------------------------------------------------------------------------
(* Request handlers.  One browser session; a handler behind               *)
(* @login_required serves only a logged-in session.                        *)

\* POST /login: a guest user and its profile; the session keeps its other keys.
\* users.email is unique: a nickname already used as a guest raises and adds nothing.
Login(nickname) ==
    LET email == <<"guest", nickname>>
        id == Len(users) + 1
    IN  /\ \A u \in DOMAIN users : users[u].email # email
        /\ users' = Append(users, User(nickname, email, None))
        /\ player_profiles' = Append(player_profiles, PlayerProfile(id))
        /\ session' = [session EXCEPT !.user_id = id]
        /\ last' = Last("login", id, 0, 0, NoOutcome, Null, <<>>)
        /\ UNCHANGED <<games, requests>>

\* GET /authorize/google: a known google_id logs in; a new one adds the user,
\* commits, then adds the profile and commits.  The handler catches any
\* exception: when the second commit raises (profile_committed = FALSE) the
\* user row stays without a profile and nobody is logged in.
AuthorizeGoogle(google_id, name, profile_committed) ==
    LET known == {u \in DOMAIN users : users[u].google_id = google_id}
        id == Len(users) + 1
    IN  IF known # {}
        THEN /\ session' = [session EXCEPT !.user_id = CHOOSE u \in known : TRUE]
             /\ last' = Last("authorize_google", session'.user_id, 0, 0, NoOutcome, Null, <<>>)
             /\ UNCHANGED <<users, player_profiles, games, requests>>
        ELSE /\ users' = Append(users, User(name, <<"google", google_id>>, google_id))
             /\ IF profile_committed
                THEN /\ player_profiles' = Append(player_profiles, PlayerProfile(id))
                     /\ session' = [session EXCEPT !.user_id = id]
                ELSE UNCHANGED <<player_profiles, session>>
             /\ last' = Last("authorize_google", session'.user_id, 0, 0, NoOutcome, Null, <<>>)
             /\ UNCHANGED <<games, requests>>

\* GET /logout: logout_user(); session.clear()
Logout ==
    /\ session' = [user_id |-> 0, current_game_id |-> 0]
    /\ last' = Last("logout", 0, 0, 0, NoOutcome, Null, <<>>)
    /\ UNCHANGED <<users, player_profiles, games, requests>>

\* POST /game with 'difficulty': init_game(user_id, difficulty)
PostDifficulty(difficulty, secret_number) ==
    /\ session.user_id # 0
    /\ secret_number \in RandInt(difficulty)
    /\ games' = InitGame(games, session.user_id, difficulty, secret_number)
    /\ session' = [session EXCEPT !.current_game_id = Len(games')]
    /\ last' = Last("difficulty", session.user_id, Len(games'), 0, NoOutcome, Null, <<>>)
    /\ UNCHANGED <<users, player_profiles, requests>>

\* GET /game: the current game, or a new medium game when there is none
GetGame(secret_number) ==
    /\ session.user_id # 0
    /\ IF GetCurrentGame(games, session.current_game_id, session.user_id) = Null
       THEN /\ secret_number \in RandInt("medium")
            /\ games' = InitGame(games, session.user_id, "medium", secret_number)
            /\ session' = [session EXCEPT !.current_game_id = Len(games')]
            /\ last' = Last("game", session.user_id, session.current_game_id, 0,
                            NotFound, Null, <<>>)
       ELSE /\ last' = Last("game", session.user_id, session.current_game_id, 0,
                            Outcome("Active", None, None), Null, <<>>)
            /\ UNCHANGED <<games, session>>
    /\ UNCHANGED <<users, player_profiles, requests>>

\* GET /new-game: session.pop('current_game_id'); init_game(user_id, 'medium')
NewGame(secret_number) ==
    /\ session.user_id # 0
    /\ secret_number \in RandInt("medium")
    /\ games' = InitGame(games, session.user_id, "medium", secret_number)
    /\ session' = [session EXCEPT !.current_game_id = Len(games')]
    /\ last' = Last("new_game", session.user_id, Len(games'), 0, NoOutcome, Null, <<>>)
    /\ UNCHANGED <<users, player_profiles, requests>>

\* POST /game with 'guess': process_guess(user_id, guess), serving a request
\* that carries the session cookie `cookie`.  A win pops current_game_id from
\* that copy and the response hands the changed copy to the browser.
ProcessGuessAs(cookie, guess) ==
    LET user_id == cookie.user_id
        game_id == OwnedGame(games, cookie.current_game_id, user_id)
    IN  /\ user_id # 0
        /\ IF game_id = 0
           THEN \* redirect(url_for('game'))
                /\ last' = Last("guess", user_id, cookie.current_game_id, guess,
                                NotFound, Null, <<>>)
                /\ UNCHANGED <<games, player_profiles, session>>
           ELSE LET game == games[game_id]
                    range == GetRange(game.difficulty)
                    outcome == Evaluate(guess, game.secret_number, range[1], range[2])
                    recorded == RecordGuess(game, guess)
                IN  /\ last' = Last("guess", user_id, game_id, guess, outcome, Null, <<>>)
                    /\ IF outcome.kind = "OutOfRange"
                       THEN UNCHANGED <<games, player_profiles, session>>
                       ELSE IF outcome.kind = "Win"
                       THEN /\ games' = [games EXCEPT ![game_id] = MarkWon(recorded)]
                            /\ player_profiles' =
                                   UpdatePlayerProfile(player_profiles, user_id,
                                                       recorded.attempts)
                            /\ session' = [cookie EXCEPT !.current_game_id = 0]
                       ELSE /\ games' = [games EXCEPT ![game_id] = recorded]
                            /\ UNCHANGED <<player_profiles, session>>
        /\ UNCHANGED users

\* the guess of a browser that waits for each response before its next request
ProcessGuess(guess) ==
    /\ ProcessGuessAs(session, guess)
    /\ UNCHANGED requests

\* GET /profile: the profile, created when the user has none
Profile ==
    /\ session.user_id # 0
    /\ IF FirstProfile(player_profiles, session.user_id) = 0
       THEN player_profiles' = Append(player_profiles, PlayerProfile(session.user_id))
       ELSE UNCHANGED player_profiles
    /\ last' = Last("profile", session.user_id, 0, 0, NoOutcome, Null, <<>>)
    /\ UNCHANGED <<users, games, session, requests>>

\* get_leaderboard(limit), as GET /leaderboard (None) and the game page (5)
\* call it; order is the order the store returned the rows in
Leaderboard(limit, order) ==
    /\ order \in StoreOrders(users, player_profiles)
    /\ last' = Last("leaderboard", 0, 0, 0, NoOutcome, limit,
                    GetLeaderboard(users, player_profiles, limit, order))
    /\ UNCHANGED <<users, player_profiles, games, session, requests>>

----------------------------------------------------------------------------
(* Spec: every handler, with sampled secrets and guesses.                  *)

\* the difficulty posted from the form in Spec (SpecEval posts every one)
FormDifficulties == {"medium"}

\* the upper end of the range the secret is drawn from
SecretSample(difficulty) == {InitGameRange(difficulty)[2]}

\* guesses around the ends of the current game's range, and its secret
GuessSample ==
    LET game_id == OwnedGame(games, session.current_game_id, session.user_id)
    IN  IF game_id = 0
        THEN {1}
        ELSE LET range == GetRange(games[game_id].difficulty)
             IN  {range[1] - 1, range[1], range[2], range[2] + 1,
                  games[game_id].secret_number}

\* the bound on recorded guesses
MayGuess ==
    LET game_id == OwnedGame(games, session.current_game_id, session.user_id)
    IN  game_id # 0 => games[game_id].attempts < MaxAttempts

Next ==
    \/ \E nickname \in Nicknames : Login(nickname)
    \/ \E google_id \in GoogleIds, name \in GoogleNames, ok \in BOOLEAN :
          AuthorizeGoogle(google_id, name, ok)
    \/ Logout
    \/ \E d \in FormDifficulties : \E s \in SecretSample(d) :
          Len(games) < MaxGames /\ PostDifficulty(d, s)
    \/ \E s \in SecretSample("medium") : Len(games) < MaxGames /\ GetGame(s)
    \/ \E s \in SecretSample("medium") : Len(games) < MaxGames /\ NewGame(s)
    \/ \E guess \in GuessSample : MayGuess /\ ProcessGuess(guess)
    \/ Profile
    \/ \E limit \in Limits, order \in StoreOrders(users, player_profiles) :
          Leaderboard(limit, order)

Spec == Init /\ [][Next]_vars

----------------------------------------------------------------------------
(* SpecEval: one user, one game of any difficulty with any secret of its   *)
(* range, and the first recorded guess.                                    *)

\* the guesses tried against a game: up to two outside each end of its range,
\* the ends, and everything within ColdMax + 2 of the secret
EvalGuesses ==
    LET game == games[session.current_game_id]
        range == GetRange(game.difficulty)
    IN  {g \in (range[1] - 2) .. (range[2] + 2) :
            \/ g <= range[1] + 1
            \/ g >= range[2] - 1
            \/ Abs(g - game.secret_number) <= ColdMax + 2}

EvalNext ==
    \/ \E nickname \in Nicknames : users = <<>> /\ Login(nickname)
    \/ \E d \in Difficulties : \E s \in RandInt(d) :
          games = <<>> /\ PostDifficulty(d, s)
    \/ /\ session.current_game_id \in DOMAIN games
       /\ games[session.current_game_id].attempts = 0
       /\ \E guess \in EvalGuesses : ProcessGuess(guess)

SpecEval == Init /\ [][EvalNext]_vars

----------------------------------------------------------------------------
(* SpecProfile: the profile aggregator on its own.  A game played to its   *)
(* win is one step: update_player_profile(user_id, attempts) and the       *)
(* commit, for the logged-in user and any attempt count.                   *)

WinRecorded(attempts) ==
    /\ session.user_id # 0
    /\ player_profiles' = UpdatePlayerProfile(player_profiles, session.user_id, attempts)
    /\ last' = Last("record_win", session.user_id, 0, 0, NoOutcome, Null, <<>>)
    /\ UNCHANGED <<users, games, session, requests>>

RECURSIVE TotalWins(_)
TotalWins(profiles) ==
    IF profiles = <<>> THEN 0
    ELSE Head(profiles).games_won + TotalWins(Tail(profiles))

ProfileNext ==
    \/ \E nickname \in Nicknames : Login(nickname)
    \/ \E google_id \in GoogleIds, name \in GoogleNames, ok \in BOOLEAN :
          AuthorizeGoogle(google_id, name, ok)
    \/ Logout
    \/ Profile
    \/ \E attempts \in 1..MaxAttempts :
          TotalWins(player_profiles) < MaxWins /\ WinRecorded(attempts)

SpecProfile == Init /\ [][ProfileNext]_vars

----------------------------------------------------------------------------
(* SpecRace: requests in flight.  gunicorn runs several workers of two     *)
(* threads each, so a request is sent with the cookie the browser holds,   *)
(* and served later, next to others.  process_guess is served in one step; *)
(* the profile view in two, its query and its insert with the commit.      *)

\* a request as the browser sends it
Request(kind, cookie, guess) ==
    [kind |-> kind, cookie |-> cookie, guess |-> guess, pc |-> "sent",
     response |-> "None"]

\* the guess form posted, a second time too before the first response is back
SendGuess(guess) ==
    /\ session.user_id # 0
    /\ requests' = Append(requests, Request("guess", session, guess))
    /\ UNCHANGED <<users, player_profiles, games, session, last>>

\* POST /game with 'guess', served with the cookie the request carries
ServeGuess(r) ==
    /\ requests[r].kind = "guess"
    /\ requests[r].pc = "sent"
    /\ ProcessGuessAs(requests[r].cookie, requests[r].guess)
    /\ requests' = [requests EXCEPT ![r].pc = "done", ![r].response = "200"]

\* GET /profile sent
SendProfile ==
    /\ session.user_id # 0
    /\ requests' = Append(requests, Request("profile", session, 0))
    /\ UNCHANGED <<users, player_profiles, games, session, last>>

\* profile(): PlayerProfile.query.filter_by(user_id=...).first(); a row found
\* is rendered at once
QueryProfile(r) ==
    LET user_id == requests[r].cookie.user_id
    IN  /\ requests[r].kind = "profile"
        /\ requests[r].pc = "sent"
        /\ IF FirstProfile(player_profiles, user_id) # 0
           THEN /\ requests' = [requests EXCEPT ![r].pc = "done",
                                                ![r].response = "200"]
                /\ last' = Last("profile", user_id, 0, 0, NoOutcome, Null, <<>>)
           ELSE /\ requests' = [requests EXCEPT ![r].pc = "queried"]
                /\ UNCHANGED last
        /\ UNCHANGED <<users, player_profiles, games, session>>

\* profile(): db.session.add(PlayerProfile(user_id=...)); db.session.commit().
\* player_profiles.user_id is unique: a commit after another request's insert
\* raises IntegrityError, which the view does not catch, and the 500 handler
\* answers.
CommitProfile(r) ==
    LET user_id == requests[r].cookie.user_id
    IN  /\ requests[r].kind = "profile"
        /\ requests[r].pc = "queried"
        /\ IF FirstProfile(player_profiles, user_id) = 0
           THEN /\ player_profiles' = Append(player_profiles, PlayerProfile(user_id))
                /\ requests' = [requests EXCEPT ![r].pc = "done",
                                                ![r].response = "200"]
           ELSE /\ requests' = [requests EXCEPT ![r].pc = "done",
                                                ![r].response = "500"]
                /\ UNCHANGED player_profiles
        /\ last' = Last("profile", user_id, 0, 0, NoOutcome, Null, <<>>)
        /\ UNCHANGED <<users, games, session>>

RaceNext ==
    \/ \E nickname \in Nicknames : Login(nickname)
    \/ \E google_id \in GoogleIds, name \in GoogleNames, ok \in BOOLEAN :
          AuthorizeGoogle(google_id, name, ok)
    \/ Logout
    \/ \E d \in FormDifficulties : \E s \in SecretSample(d) :
          Len(games) < MaxGames /\ PostDifficulty(d, s)
    \/ \E guess \in GuessSample : Len(requests) < MaxRequests /\ SendGuess(guess)
    \/ \E r \in DOMAIN requests : ServeGuess(r)
    \/ Len(requests) < MaxRequests /\ SendProfile
    \/ \E r \in DOMAIN requests : QueryProfile(r)
    \/ \E r \in DOMAIN requests : CommitProfile(r)

SpecRace == Init /\ [][RaceNext]_vars

----------------------------------------------------------------------------
(* Properties.                                                             *)

\* C1: a guess evaluated against a secret inside the game's range yields
\* exactly the outcome its position decides: OutOfRange outside [low, high];
\* else Win on the secret; else a Miss whose band is VeryClose up to distance
\* 5, Warm for 6..15, Cold for 16..30, WayOff beyond 30, and whose direction
\* is TooLow below the secret and TooHigh above it.
C1_EvaluateClassifies ==
    (last.op = "guess" /\ last.outcome.kind # "NotFound") =>
        LET g == last.guess
            s == games[last.game_id].secret_number
            low == GetRange(games[last.game_id].difficulty)[1]
            high == GetRange(games[last.game_id].difficulty)[2]
            dist == IF g < s THEN s - g ELSE g - s
            o == last.outcome
        IN  (low <= s /\ s <= high) =>
              /\ o.kind \in {"OutOfRange", "Win", "Miss"}
              /\ o.kind = "OutOfRange" <=> (g < low \/ g > high)
              /\ o.kind = "Win" <=> (low <= g /\ g <= high /\ g = s)
              /\ o.kind = "Miss" =>
                    /\ o.band = "VeryClose" <=> dist <= 5
                    /\ o.band = "Warm" <=> (6 <= dist /\ dist <= 15)
                    /\ o.band = "Cold" <=> (16 <= dist /\ dist <= 30)
                    /\ o.band = "WayOff" <=> dist > 30
                    /\ o.direction = IF g < s THEN "TooLow" ELSE "TooHigh"
              /\ o.kind # "Miss" => (o.band = None /\ o.direction = None)

\* a Cold miss at distance exactly 30, above the secret
C1_Witness ==
    /\ last.op = "guess"
    /\ last.outcome = Outcome("Miss", "Cold", "TooHigh")
    /\ last.guess - games[last.game_id].secret_number = 30

\* C6: a guess equal to the game's secret is a Win, whatever the game's
\* difficulty and range.
C6_SecretGuessWins ==
    (/\ last.op = "guess"
     /\ last.outcome.kind # "NotFound"
     /\ last.guess = games[last.game_id].secret_number)
        => (last.outcome.kind = "Win" /\ games[last.game_id].won)

\* the secret at the lower end of the hard range, guessed
C6_Witness ==
    /\ last.op = "guess"
    /\ last.outcome.kind = "Win"
    /\ games[last.game_id].difficulty = "hard"
    /\ last.guess = 1
    /\ games[last.game_id].secret_number = 1

\* C7: the range of a difficulty is (1,50) for easy, (1,100) for medium,
\* (1,500) for hard and (1,100) for any other or missing one, never empty;
\* and the secret of every game was drawn from the range its guesses are
\* validated against.
C7_RangeForTotal ==
    LET all == Difficulties \cup {None}
    IN  /\ GetRange("easy") = <<1, 50>>
        /\ GetRange("medium") = <<1, 100>>
        /\ GetRange("hard") = <<1, 500>>
        /\ \A d \in all \ {"easy", "medium", "hard"} : GetRange(d) = <<1, 100>>
        /\ \A d \in all : GetRange(d)[1] <= GetRange(d)[2]
        /\ \A d \in all : RandInt(d) = GetRange(d)[1] .. GetRange(d)[2]
        /\ \A k \in DOMAIN games :
              /\ GetRange(games[k].difficulty)[1] <= games[k].secret_number
              /\ games[k].secret_number <= GetRange(games[k].difficulty)[2]

\* a game of an unrecognized difficulty whose secret is the top of medium's range
C7_Witness ==
    \E k \in DOMAIN games :
        /\ games[k].difficulty = "insane"
        /\ games[k].secret_number = 100

\* C2: a win recorded for a user who has a profile adds 1 to games_won and
\* current_streak and the game's attempts to total_attempts, makes best_score
\* the minimum and worst_score the maximum of the old value (if any) and the
\* attempts, makes best_streak the maximum of itself and the new streak, and
\* changes no other profile; a first win in 3 attempts gives best_score 3,
\* games_won 1, current_streak 1.
C2_RecordWinUpdates ==
    [][(last'.op = "guess" /\ last'.outcome.kind = "Win") =>
        LET u == last'.user_id
            a == games'[last'.game_id].attempts
        IN  (\E i \in DOMAIN player_profiles : player_profiles[i].user_id = u) =>
              /\ DOMAIN player_profiles' = DOMAIN player_profiles
              /\ \A i \in DOMAIN player_profiles :
                    LET p == player_profiles[i]
                        q == player_profiles'[i]
                    IN  IF p.user_id # u
                        THEN q = p
                        ELSE /\ q.user_id = u
                             /\ q.games_won = p.games_won + 1
                             /\ q.games_lost = p.games_lost
                             /\ q.current_streak = p.current_streak + 1
                             /\ q.total_attempts = p.total_attempts + a
                             /\ q.best_score =
                                   IF p.best_score = Null \/ a <= p.best_score[1]
                                   THEN <<a>> ELSE p.best_score
                             /\ q.worst_score =
                                   IF p.worst_score = Null \/ a >= p.worst_score[1]
                                   THEN <<a>> ELSE p.worst_score
                             /\ q.best_streak =
                                   IF p.best_streak >= q.current_streak
                                   THEN p.best_streak ELSE q.current_streak
                             /\ (p = PlayerProfile(u) /\ a = 3) =>
                                   /\ q.best_score = <<3>>
                                   /\ q.games_won = 1
                                   /\ q.current_streak = 1
    ]_vars

\* a second win, in 3 attempts after one in 1, beside another user's profile
C2_Witness ==
    /\ last.op = "guess"
    /\ last.outcome.kind = "Win"
    /\ games[last.game_id].attempts = 3
    /\ \E i, j \in DOMAIN player_profiles :
          /\ player_profiles[i].user_id = last.user_id
          /\ player_profiles[i].games_won = 2
          /\ player_profiles[i].best_score = <<1>>
          /\ player_profiles[i].worst_score = <<3>>
          /\ player_profiles[i].total_attempts = 4
          /\ player_profiles[j].user_id # last.user_id

\* C3: a win recorded for a user without a profile row creates the profile
\* and records the win in it: afterwards the user has exactly one profile,
\* with games_won = 1, current_streak = 1 and best_score = worst_score = a.
C3_RecordWinCreatesProfile ==
    [][(/\ last'.op = "guess"
        /\ last'.outcome.kind = "Win"
        /\ \A i \in DOMAIN player_profiles : player_profiles[i].user_id # last'.user_id)
       =>
        LET u == last'.user_id
            a == games'[last'.game_id].attempts
            mine == {i \in DOMAIN player_profiles' : player_profiles'[i].user_id = u}
        IN  /\ Cardinality(mine) = 1
            /\ \A i \in mine :
                  /\ player_profiles'[i].games_won = 1
                  /\ player_profiles'[i].current_streak = 1
                  /\ player_profiles'[i].best_score = <<a>>
                  /\ player_profiles'[i].worst_score = <<a>>
    ]_vars

C5_AbsentOrNotOwned ==
    [][LET id == session.current_game_id
           u == session.user_id
           absent == id \notin DOMAIN games \/ games[id].user_id # u
       IN  /\ \A k \in 0 .. (Len(games) + 1) : \A v \in DOMAIN users :
                 (GetCurrentGame(games, k, v) = Null)
                     <=> (k \notin DOMAIN games \/ games[k].user_id # v)
           /\ last'.op = "game" => (absent <=> last'.outcome = NotFound)
           /\ last'.op = "guess" =>
                 /\ absent <=> last'.outcome = NotFound
                 /\ absent => (games' = games /\ player_profiles' = player_profiles)
    ]_vars

\* a guess posted while the session's game belongs to another user
C5_Witness ==
    /\ last.op = "guess"
    /\ last.outcome = NotFound
    /\ last.game_id \in DOMAIN games
    /\ games[last.game_id].user_id # last.user_id
    /\ games[last.game_id].attempts > 0

\* C8: the leaderboard without a limit holds one entry {name, best_score,
\* wins} for each user whose profile has a best_score and none for anyone
\* else, in ascending order of best_score; it is empty when nobody has one.
C8_TopScoresUnlimited ==
    (last.op = "leaderboard" /\ last.limit = Null) =>
        LET ranked == {u \in DOMAIN users :
                          \E i \in DOMAIN player_profiles :
                              /\ player_profiles[i].user_id = u
                              /\ player_profiles[i].best_score # Null}
            r == last.result
        IN  /\ Len(r) = Cardinality(ranked)
            /\ \E f \in [1 .. Len(r) -> ranked] :
                  /\ \A j, k \in 1 .. Len(r) : j # k => f[j] # f[k]
                  /\ \A k \in 1 .. Len(r) :
                        \E i \in DOMAIN player_profiles :
                            /\ player_profiles[i].user_id = f[k]
                            /\ r[k] = [name |-> users[f[k]].name,
                                       best_score |-> player_profiles[i].best_score[1],
                                       wins |-> player_profiles[i].games_won]
            /\ \A j, k \in 1 .. Len(r) : j < k => r[j].best_score <= r[k].best_score
            /\ ranked = {} => r = <<>>

\* two users ranked, the better score first
C8_Witness ==
    /\ last.op = "leaderboard"
    /\ last.limit = Null
    /\ Len(last.result) = 2
    /\ last.result[1].best_score < last.result[2].best_score

\* C9: with a limit n >= 0 the leaderboard has at most n entries, and they are
\* the n best-ranked rows of the unlimited leaderboard.
C9_TopScoresLimited ==
    (last.op = "leaderboard" /\ last.limit # Null) =>
        LET n == last.limit[1]
            ranked == {u \in DOMAIN users :
                          \E i \in DOMAIN player_profiles :
                              /\ player_profiles[i].user_id = u
                              /\ player_profiles[i].best_score # Null}
            r == last.result
        IN  /\ Len(r) <= n
            /\ Len(r) = (IF n < Cardinality(ranked) THEN n ELSE Cardinality(ranked))
            /\ \A j, k \in 1 .. Len(r) : j < k => r[j].best_score <= r[k].best_score
            /\ \E f \in [1 .. Len(r) -> ranked] :
                  /\ \A j, k \in 1 .. Len(r) : j # k => f[j] # f[k]
                  /\ \A k \in 1 .. Len(r) :
                        \E i \in DOMAIN player_profiles :
                            /\ player_profiles[i].user_id = f[k]
                            /\ r[k].name = users[f[k]].name
                            /\ r[k].best_score = player_profiles[i].best_score[1]
                            /\ r[k].wins = player_profiles[i].games_won
                  /\ \A u \in ranked : \A i \in DOMAIN player_profiles :
                        (/\ player_profiles[i].user_id = u
                         /\ \A k \in 1 .. Len(r) : f[k] # u)
                            => \A k \in 1 .. Len(r) :
                                  r[k].best_score <= player_profiles[i].best_score[1]

C11_ScoreBounds ==
    [][/\ \A i \in DOMAIN player_profiles' :
             LET q == player_profiles'[i]
             IN  /\ q.best_streak >= q.current_streak
                 /\ (q.best_score # Null /\ q.worst_score # Null) =>
                       /\ q.best_score[1] <= q.worst_score[1]
                       /\ \A k \in DOMAIN games' :
                             (games'[k].won /\ games'[k].user_id = q.user_id) =>
                                 /\ q.best_score[1] <= games'[k].attempts
                                 /\ games'[k].attempts <= q.worst_score[1]
       /\ \A i \in DOMAIN player_profiles :
             LET p == player_profiles[i]
                 q == player_profiles'[i]
             IN  /\ p.best_score # Null =>
                       (q.best_score # Null /\ q.best_score[1] <= p.best_score[1])
                 /\ p.worst_score # Null =>
                       (q.worst_score # Null /\ q.worst_score[1] >= p.worst_score[1])
                 /\ q.best_streak >= p.best_streak
    ]_vars

\* C12: however guess requests interleave, a won game's row never changes
\* again (attempts, guesses, won, completed_at), so won goes from false to
\* true at most once; the step that wins a game leaves the session without
\* that game as its current game; and no profile counts more wins than its
\* user has won games, that is, no game's win is recorded twice.
C12_WinOnce ==
    [][/\ \A g \in DOMAIN games : games[g].won => games'[g] = games[g]
       /\ \A g \in DOMAIN games :
             (~games[g].won /\ games'[g].won) => session'.current_game_id # g
       /\ \A i \in DOMAIN player_profiles' :
             player_profiles'[i].games_won <=
                 Cardinality({g \in DOMAIN games' :
                                 /\ games'[g].won
                                 /\ games'[g].user_id = player_profiles'[i].user_id})
    ]_vars

\* C13: there is never more than one profile row for a user, and no profile
\* view is answered with a failure: a request whose insert lost reads the
\* winner's row instead.
C13_OneProfileNoFailure ==
    /\ \A i, j \in DOMAIN player_profiles :
          player_profiles[i].user_id = player_profiles[j].user_id => i = j
    /\ \A r \in DOMAIN requests :
          requests[r].kind = "profile" => requests[r].response # "500"

====
